---- MODULE Spec2Model ----
(***************************************************************************)
(* sha3sum: print or check SHA3 checksums.                                 *)
(*                                                                         *)
(* The repository holds two versions of the program: src/sha3sum.go (with  *)
(* the binary/text/portable transfer modes) and src/unnamed/part_000       *)
(* (without them).  The variable prog says which of the two is running;    *)
(* the definitions whose name ends in 0 model part_000.                    *)
(*                                                                         *)
(* Strings are sequences of one-character strings, file contents are       *)
(* sequences of byte values.                                               *)
(*                                                                         *)
(* SpecGen are the runs that print checksums, SpecCheck the runs that      *)
(* check a manifest (--check).  A step is main up to its dispatch, one     *)
(* line of readHashes, or one iteration of the loop of checkFiles or       *)
(* hashFiles.  Reads of an opened file succeed; a read of the standard     *)
(* input that an earlier hashFile call closed fails.                       *)
(***************************************************************************)
EXTENDS Integers, Sequences, FiniteSets, TLC

VARIABLES
    prog,           \* which source file is the program
    windows,        \* src/sha3sum.go:46  WINDIR is set
    opt,            \* the parsed command line (goopt)
    manifest,       \* the lines of the file named by --check, as stored
    manifestExists, \* whether that file can be opened
    pc,             \* position of the process
    rd,             \* readHashes: number of manifest lines consumed
    hashes, filenames, algorithms, portables, binaries, \* readHashes' result
    i,              \* loop index of checkFiles / hashFiles (1-based)
    good, bad,      \* checkFiles' counters
    verdicts,       \* checkFiles: branch taken for each entry so far
    stdout, stderr, \* what was printed
    exit,           \* process exit status, -1 while running
    opened,         \* the names os.Open succeeded on, in order
    stdinClosed,    \* os.Stdin was read to its end and closed by a hashFile call
    absorbed        \* one record per hashFile call that opened its file

vars == <<prog, windows, opt, manifest, manifestExists, pc, rd, hashes,
          filenames, algorithms, portables, binaries, i, good, bad, verdicts,
          stdout, stderr, exit, opened, absorbed, stdinClosed>>

(***************************************************************************)
(* Bounds of the model.                                                    *)
(***************************************************************************)
MaxLines == 2       \* lines in a manifest
MaxFiles == 2       \* file operands on the command line

(***************************************************************************)
(* Characters and bytes.                                                   *)
(***************************************************************************)
CR == 13      \* '\r'
LF == 10      \* '\n'

HexLower == <<"0","1","2","3","4","5","6","7","8","9","a","b","c","d","e","f">>
HexUpper == <<"0","1","2","3","4","5","6","7","8","9","A","B","C","D","E","F">>
Digits   == {"0","1","2","3","4","5","6","7","8","9"}
HexChars == {HexLower[k] : k \in 1..16} \cup {HexUpper[k] : k \in 1..16}

Min(S) == CHOOSE x \in S : \A y \in S : x <= y

\* s without its first n elements
Drop(s, n) == IF n >= Len(s) THEN <<>> ELSE SubSeq(s, n + 1, Len(s))
Take(s, n) == IF n <= 0 THEN <<>> ELSE SubSeq(s, 1, IF n > Len(s) THEN Len(s) ELSE n)

\* length of the longest prefix of s whose characters all lie in C
Run(s, C) ==
    LET stop == {k \in 1..Len(s) : s[k] \notin C}
    IN  IF stop = {} THEN Len(s) ELSE Min(stop) - 1

HasPrefix(s, p) == Len(s) >= Len(p) /\ \A k \in 1..Len(p) : s[k] = p[k]

\* fmt's %d of a non-negative integer
RECURSIVE Itoa(_)
Itoa(n) == IF n < 10 THEN <<HexLower[n + 1]>>
           ELSE Itoa(n \div 10) \o <<HexLower[(n % 10) + 1]>>

\* strconv.Atoi of a string of decimal digits
DigitVal(c) == (CHOOSE k \in 1..10 : HexLower[k] = c) - 1
RECURSIVE Atoi(_)
Atoi(s) == IF s = <<>> THEN 0
           ELSE 10 * Atoi(SubSeq(s, 1, Len(s) - 1)) + DigitVal(s[Len(s)])

\* encoding/hex: value of one hex character, -1 when it is none
fromHexChar(c) ==
    IF \E k \in 1..16 : HexLower[k] = c
    THEN (CHOOSE k \in 1..16 : HexLower[k] = c) - 1
    ELSE IF \E k \in 11..16 : HexUpper[k] = c
         THEN (CHOOSE k \in 11..16 : HexUpper[k] = c) - 1
         ELSE -1

\* hex.DecodeString: err on an odd length or a character that is no hex digit
DecodeString(s) ==
    IF Len(s) % 2 # 0 \/ \E k \in 1..Len(s) : fromHexChar(s[k]) = -1
    THEN [err |-> TRUE, bytes |-> <<>>]
    ELSE [err |-> FALSE,
          bytes |-> [k \in 1..(Len(s) \div 2) |->
                       16 * fromHexChar(s[2 * k - 1]) + fromHexChar(s[2 * k])]]

\* fmt.Sprintf("%02x", b) for every byte of sum, concatenated
Sprintf02x(sum) ==
    [k \in 1..(2 * Len(sum)) |->
        IF k % 2 = 1 THEN HexLower[(sum[(k + 1) \div 2] \div 16) + 1]
                     ELSE HexLower[(sum[k \div 2] % 16) + 1]]

\* securecompare.Equal: constant-time equality of two byte strings
SecureEqual(a, b) == Len(a) = Len(b) /\ \A k \in 1..Len(a) : a[k] = b[k]

validAlgorithm(algorithm) == algorithm \in {224, 256, 384, 512}

(***************************************************************************)
(* The digest accumulator (keccak) is an external collaborator.  It is     *)
(* abstracted by a deterministic function of the absorbed bytes that       *)
(* yields algorithm/8 bytes.                                               *)
(***************************************************************************)
RECURSIVE Absorb(_, _)
Absorb(data, s) == IF data = <<>> THEN s
                   ELSE Absorb(Tail(data), (s * 31 + Head(data) + 1) % 65521)

KeccakSum(algorithm, data) ==
    LET s == Absorb(data, 7)
    IN  [k \in 1..(algorithm \div 8) |-> (s * 7 + k * k * 37 + k * 11 + algorithm) % 256]

(***************************************************************************)
(* The file system and the standard input.                                 *)
(***************************************************************************)
FileA    == <<"a">>
FileB    == <<"b">>
FileAB   == <<"a","b">>
FileStar == <<"*","a">>
FileM    == <<"m">>          \* a name no file has
Dash     == <<"-">>
Sums     == <<"s","u","m","s">>

fs == [n \in {FileA, FileB, FileAB, FileStar} |->
         CASE n = FileA    -> <<120, CR, LF, 121, LF>>
           [] n = FileB    -> <<120, CR, LF, 121>>
           [] n = FileAB   -> <<CR, LF>>
           [] n = FileStar -> <<120, LF>>]
Stdin == <<121, CR>>

(***************************************************************************)
(* hashFile, src/sha3sum.go:50-112.                                        *)
(***************************************************************************)
\* os.Open succeeds ("-" is the standard input and is never opened)
CanOpen(filename) == filename = Dash \/ filename \in DOMAIN fs
Content(filename) == IF filename = Dash THEN Stdin ELSE fs[filename]

\* The text loop (lines 85-99): ReadString('\n') returns a line only when it
\* ends in LF; at the end of the input the rest comes with io.EOF and the loop
\* breaks without writing it.  A line is cut by one byte when the whole line
\* equals "\r".
StripCR(line) == IF line = <<CR>> THEN SubSeq(line, 1, Len(line) - 1) ELSE line

RECURSIVE TextFeed(_)
TextFeed(data) ==
    LET nl == {k \in 1..Len(data) : data[k] = LF}
    IN  IF nl = {} THEN <<>>
        ELSE StripCR(Take(data, Min(nl))) \o TextFeed(Drop(data, Min(nl)))

\* the bytes written to the accumulator
Feed(data, text) == IF text THEN TextFeed(data) ELSE data

\* st = "die": os.Open failed and dieerr ended the process;
\* st = "readerr": f is os.Stdin, which an earlier call closed (defer
\*               f.Close(), line 60): the first Read fails with an error other
\*               than io.EOF, nothing is written and dieerr ends the process;
\* st = "panic": h is the nil interface (no case of the switch matched) and
\*               h.Write / h.Sum dereference it;
\* st = "ok": result is the lowercase hex digest.
hashFile(filename, algorithm, portable, binary) ==
    LET text == ~(binary \/ portable \/ ~windows)
    IN  IF ~CanOpen(filename)
        THEN [st |-> "die", result |-> <<>>, text |-> text, fed |-> <<>>]
        ELSE IF filename = Dash /\ stdinClosed
        THEN [st |-> "readerr", result |-> <<>>, text |-> text, fed |-> <<>>]
        ELSE IF ~validAlgorithm(algorithm)
        THEN [st |-> "panic", result |-> <<>>, text |-> text, fed |-> <<>>]
        ELSE [st |-> "ok",
              result |-> Sprintf02x(KeccakSum(algorithm, Feed(Content(filename), text))),
              text |-> text,
              fed |-> Feed(Content(filename), text)]

\* src/unnamed/part_000:42-89: the same without the text loop
hashFile0(filename, algorithm) ==
    IF ~CanOpen(filename)
    THEN [st |-> "die", result |-> <<>>, text |-> FALSE, fed |-> <<>>]
    ELSE IF filename = Dash /\ stdinClosed
    THEN [st |-> "readerr", result |-> <<>>, text |-> FALSE, fed |-> <<>>]
    ELSE IF ~validAlgorithm(algorithm)
    THEN [st |-> "panic", result |-> <<>>, text |-> FALSE, fed |-> <<>>]
    ELSE [st |-> "ok",
          result |-> Sprintf02x(KeccakSum(algorithm, Content(filename))),
          text |-> FALSE,
          fed |-> Content(filename)]

(***************************************************************************)
(* The line grammars.                                                      *)
(***************************************************************************)
NoEntry == [hash |-> <<>>, fname |-> <<>>, algorithm |-> 0,
            portable |-> FALSE, binary |-> FALSE, err |-> ""]

SHA3 == <<"S","H","A","3","-">>

\* tagRegexp, src/sha3sum.go:114:
\*   ^SHA3-([0-9][0-9][0-9]) \(([^)])\)[ ]*=[ ]*([0-9A-Fa-f][0-9A-Fa-f]*)$
\* The submatches <<algorithm, filename, hash>>, or <<>> when the line does not
\* match.  Every part of the pattern is deterministic: a character class is
\* always followed by a character outside it.
tagRegexp(line) ==
    IF ~(/\ Len(line) >= 13
         /\ HasPrefix(line, SHA3)
         /\ \A k \in 6..8 : line[k] \in Digits
         /\ line[9] = " " /\ line[10] = "("
         /\ line[11] # ")" /\ line[12] = ")")
    THEN <<>>
    ELSE LET r1 == Drop(line, 12)
             s1 == Run(r1, {" "})
             r2 == Drop(r1, s1)
         IN  IF r2 = <<>> \/ r2[1] # "=" THEN <<>>
             ELSE LET r3 == Drop(r2, 1)
                      s2 == Run(r3, {" "})
                      r4 == Drop(r3, s2)
                  IN  IF r4 = <<>> \/ Run(r4, HexChars) # Len(r4) THEN <<>>
                      ELSE <<SubSeq(line, 6, 8), <<line[11]>>, r4>>

\* parseTagHash, src/sha3sum.go:117-149.  The results are named: a failing
\* return hands back whatever was assigned before it.
parseTagHash(line) ==
    LET m == tagRegexp(line)
    IN  IF m = <<>> THEN [NoEntry EXCEPT !.err = "bad checksum line"]
        ELSE LET algorithm == Atoi(m[1])
             IN  IF ~validAlgorithm(algorithm)
                 THEN [NoEntry EXCEPT !.algorithm = algorithm, !.err = "bad algorithm"]
                 ELSE IF Len(m[2]) = 0
                 THEN [NoEntry EXCEPT !.algorithm = algorithm, !.err = "bad filename"]
                 ELSE IF Len(m[3]) # algorithm \div 4
                 THEN [NoEntry EXCEPT !.algorithm = algorithm, !.fname = m[2],
                                      !.hash = m[3], !.err = "bad hash"]
                 ELSE [NoEntry EXCEPT !.algorithm = algorithm, !.fname = m[2],
                                      !.hash = m[3]]

\* The part of both plain patterns up to the separator,
\*   ^([0-9A-Fa-f][0-9A-Fa-f]*)[ ][ ]*
\* as <<hash, number of spaces, rest>>, or <<>> without a match.
PlainHead(line) ==
    LET h == Run(line, HexChars)
        r == Drop(line, h)
        s == Run(r, {" "})
    IN  IF h = 0 \/ s = 0 THEN <<>> ELSE <<Take(line, h), s, Drop(r, s)>>

\* normalRegexp, src/sha3sum.go:151:
\*   ^([0-9A-Fa-f][0-9A-Fa-f]*)[ ][ ]*([*?])?(.+)$
\* The submatches <<hash, modechar, filename>>.  The spaces are taken greedily,
\* then the mode character when one more character follows it; when nothing
\* follows the spaces the last of two or more spaces is the filename.
normalRegexp(line) ==
    LET p == PlainHead(line)
    IN  IF p = <<>> THEN <<>>
        ELSE IF p[3] = <<>>
        THEN IF p[2] >= 2 THEN <<p[1], <<>>, <<" ">>>> ELSE <<>>
        ELSE IF p[3][1] \in {"*", "?"} /\ Len(p[3]) >= 2
        THEN <<p[1], <<p[3][1]>>, Drop(p[3], 1)>>
        ELSE <<p[1], <<>>, p[3]>>

\* parseNormalHash, src/sha3sum.go:154-180
parseNormalHash(line) ==
    LET m == normalRegexp(line)
    IN  IF m = <<>> THEN [NoEntry EXCEPT !.err = "bad checksum line"]
        ELSE IF Len(m) + 1 # 4 THEN [NoEntry EXCEPT !.err = "bad line"]
        ELSE IF Len(m[1]) \notin {224 \div 4, 256 \div 4, 384 \div 4, 512 \div 4}
        THEN [NoEntry EXCEPT !.hash = m[1], !.err = "bad hash"]
        ELSE IF Len(m[3]) = 0
        THEN [NoEntry EXCEPT !.hash = m[1], !.algorithm = Len(m[1]) * 4,
                             !.portable = (m[2] = <<"?">>),
                             !.binary = (m[2] = <<"*">>), !.err = "bad filename"]
        ELSE [NoEntry EXCEPT !.hash = m[1], !.algorithm = Len(m[1]) * 4,
                             !.portable = (m[2] = <<"?">>),
                             !.binary = (m[2] = <<"*">>), !.fname = m[3]]

parseHash(line, tag) == IF tag THEN parseTagHash(line) ELSE parseNormalHash(line)

\* normalRegexp of src/unnamed/part_000:128, with two groups:
\*   ^([0-9A-Fa-f][0-9A-Fa-f]*)[ ][ ]*(.+)$
\* The submatches <<hash, filename>>.
normalRegexp0(line) ==
    LET p == PlainHead(line)
    IN  IF p = <<>> THEN <<>>
        ELSE IF p[3] = <<>>
        THEN IF p[2] >= 2 THEN <<p[1], <<" ">>>> ELSE <<>>
        ELSE <<p[1], p[3]>>

\* parseNormalHash of src/unnamed/part_000:131-156.  FindStringSubmatch
\* returns the whole match and the two groups, and the test for four is kept.
parseNormalHash0(line) ==
    LET m == normalRegexp0(line)
    IN  IF m = <<>> THEN [NoEntry EXCEPT !.err = "bad checksum line"]
        ELSE IF Len(m) + 1 # 4 THEN [NoEntry EXCEPT !.err = "bad line"]
        ELSE IF Len(m[1]) \notin {224 \div 4, 256 \div 4, 384 \div 4, 512 \div 4}
        THEN [NoEntry EXCEPT !.hash = m[1], !.err = "bad hash"]
        ELSE IF Len(m[2]) = 0
        THEN [NoEntry EXCEPT !.hash = m[1], !.algorithm = Len(m[1]) * 4,
                             !.err = "bad filename"]
        ELSE [NoEntry EXCEPT !.hash = m[1], !.algorithm = Len(m[1]) * 4,
                             !.fname = m[2]]

\* parseTagHash of src/unnamed/part_000:94-126: the same pattern and the same
\* checks, without the mode results
parseTagHash0(line) == parseTagHash(line)

\* parseHash of src/unnamed/part_000:158-164
parseHash0(line, tag) == IF tag THEN parseTagHash0(line) ELSE parseNormalHash0(line)

(***************************************************************************)
(* The manifest writer: the lines hashFiles prints.                        *)
(***************************************************************************)
\* src/sha3sum.go:244  "SHA3-%d (%s) = %s\n"
FormatTag(algorithm, filename, hash) ==
    SHA3 \o Itoa(algorithm) \o <<" ", "(">> \o filename \o <<")", " ", "=", " ">> \o hash

\* src/sha3sum.go:246-252
FormatPlain(hash, filename, portable, binary) ==
    hash \o <<" ", " ">>
         \o (IF portable THEN <<"?">> ELSE IF binary THEN <<"*">> ELSE <<>>)
         \o filename

\* src/unnamed/part_000:221  "%s  %s\n"
FormatPlain0(hash, filename) == hash \o <<" ", " ">> \o filename

(***************************************************************************)
(* Inputs: command lines and manifests.                                    *)
(***************************************************************************)
Progs == {"sha3sum.go", "part_000"}

\* the digest hashFile yields for a file read as raw bytes
ActualHex(filename, algorithm) == Sprintf02x(KeccakSum(algorithm, Content(filename)))

\* h with the character at position p replaced by c
Replace(h, p, c) == [h EXCEPT ![p] = c]

\* a hex digit of another value than c
OtherDigit(c) == HexLower[((fromHexChar(c) + 1) % 16) + 1]

\* the same hex digit in the other letter case, for a letter
UpperOf(c) == HexUpper[fromHexChar(c) + 1]
LetterPos(h) == Min({k \in 1..Len(h) : fromHexChar(h[k]) >= 10})

Garbage == <<"z", " ", "z">>
ShortHex == <<"a", "b", "c">>
AnyHex(n) == [k \in 1..n |-> HexLower[(k % 16) + 1]]

PlainLines ==
    { FormatPlain(ActualHex(FileA, 256), FileA, FALSE, FALSE),
      FormatPlain(ActualHex(FileA, 224), FileA, FALSE, TRUE),
      FormatPlain(ActualHex(FileAB, 512), FileAB, TRUE, FALSE),
      FormatPlain(Replace(ActualHex(FileA, 256), 1, OtherDigit(ActualHex(FileA, 256)[1])),
                  FileA, FALSE, FALSE),
      FormatPlain(Replace(ActualHex(FileB, 384), 96, OtherDigit(ActualHex(FileB, 384)[96])),
                  FileB, FALSE, FALSE),
      FormatPlain(Replace(ActualHex(FileA, 256), LetterPos(ActualHex(FileA, 256)),
                          UpperOf(ActualHex(FileA, 256)[LetterPos(ActualHex(FileA, 256))])),
                  FileA, FALSE, FALSE),
      FormatPlain(AnyHex(64), FileM, FALSE, FALSE),
      FormatPlain(ShortHex, FileA, FALSE, FALSE),
      Garbage }

TagLines ==
    { FormatTag(256, FileA, ActualHex(FileA, 256)),
      FormatTag(224, FileB, ActualHex(FileB, 224)),
      FormatTag(256, FileAB, ActualHex(FileAB, 256)),
      FormatTag(256, FileA,
                Replace(ActualHex(FileA, 256), 1, OtherDigit(ActualHex(FileA, 256)[1]))),
      FormatTag(256, FileA,
                Replace(ActualHex(FileA, 256), LetterPos(ActualHex(FileA, 256)),
                        UpperOf(ActualHex(FileA, 256)[LetterPos(ActualHex(FileA, 256))]))),
      FormatTag(384, FileM, AnyHex(96)),
      FormatTag(256, FileA, ShortHex),
      FormatTag(999, FileA, ShortHex),
      Garbage }

SeqsUpTo(S, n) == UNION {[1..k -> S] : k \in 0..n}

Names == {Dash, FileA, FileB, FileAB, FileStar, FileM}

\* the options of a run without --check
GenOpts(p) ==
    [algorithm : {224, 256, 384, 512, 100},
     binary : IF p = "sha3sum.go" THEN BOOLEAN ELSE {FALSE},
     portable : IF p = "sha3sum.go" THEN BOOLEAN ELSE {FALSE},
     text : IF p = "sha3sum.go" THEN BOOLEAN ELSE {FALSE},
     tag : BOOLEAN, status : BOOLEAN, quiet : {FALSE}, strict : {FALSE},
     version : BOOLEAN, check : {FALSE},
     args : SeqsUpTo(Names, MaxFiles)]

\* the options of a run with --check sums
CheckOpts(p) ==
    [algorithm : {256},
     binary : {FALSE},
     portable : {FALSE},
     text : {FALSE},
     tag : BOOLEAN, status : BOOLEAN, quiet : BOOLEAN, strict : BOOLEAN,
     version : {FALSE}, check : {TRUE},
     args : {<<>>}]

\* the state before main runs
Start ==
    /\ prog \in Progs
    /\ windows \in (IF prog = "sha3sum.go" THEN BOOLEAN ELSE {FALSE})
    /\ pc = "main"
    /\ rd = 0
    /\ hashes = <<>> /\ filenames = <<>> /\ algorithms = <<>>
    /\ portables = <<>> /\ binaries = <<>>
    /\ i = 1
    /\ good = 0 /\ bad = 0
    /\ verdicts = <<>>
    /\ stdout = <<>> /\ stderr = <<>>
    /\ exit = -1
    /\ opened = <<>>
    /\ absorbed = <<>>
    /\ stdinClosed = FALSE

\* a run that prints checksums
InitGen ==
    /\ Start
    /\ opt \in GenOpts(prog)
    /\ manifest = <<>>
    /\ manifestExists = FALSE

\* a run that checks the manifest sums
InitCheck ==
    /\ Start
    /\ opt \in CheckOpts(prog)
    /\ \/ /\ manifestExists = TRUE
          /\ manifest \in SeqsUpTo(IF opt.tag THEN TagLines ELSE PlainLines, MaxLines)
       \/ /\ manifestExists = FALSE
          /\ manifest = <<>>

(***************************************************************************)
(* Actions.                                                                *)
(***************************************************************************)
readState == <<rd, hashes, filenames, algorithms, portables, binaries>>
loopState == <<i, good, bad, verdicts>>
inputs    == <<prog, windows, opt, manifest, manifestExists>>

\* die, src/sha3sum.go:35-38
Die(msg) ==
    /\ stderr' = Append(stderr, msg)
    /\ exit' = 1
    /\ pc' = "exited"

VersionLine == <<"s","h","a","3","s","u","m"," ","1",".","0">>

\* files, src/sha3sum.go:355-360
Files == IF Len(opt.args) = 0 THEN <<Dash>> ELSE opt.args

\* main of src/sha3sum.go:308-376 up to the call of hashFiles or checkFiles.
\* goopt returns a pointer for every option, so the two tests written
\* "x == nil && ..." (lines 330, 351) are false whatever the value is.
MainA ==
    /\ stdout' = IF ~(opt.text /\ opt.binary) /\ opt.version
                 THEN Append(stdout, VersionLine) ELSE stdout
    /\ IF FALSE /\ ~validAlgorithm(opt.algorithm) THEN Die("bad algorithm")
       ELSE IF opt.text /\ opt.binary THEN Die("cannot specify both text and binary")
       ELSE IF FALSE /\ (opt.status \/ opt.quiet \/ opt.strict)
       THEN Die("silent, warn, strict and/or quiet can only be used with check")
       ELSE IF opt.version
       THEN /\ exit' = 0 /\ pc' = "exited" /\ UNCHANGED stderr
       ELSE /\ pc' = IF opt.check THEN "checkFiles" ELSE "hashFiles"
            /\ UNCHANGED <<exit, stderr>>

\* main of src/unnamed/part_000:268-315
MainB ==
    /\ stdout' = IF opt.version THEN Append(stdout, VersionLine) ELSE stdout
    /\ IF opt.version
       THEN /\ exit' = 0 /\ pc' = "exited" /\ UNCHANGED stderr
       ELSE IF ~validAlgorithm(opt.algorithm) THEN Die("bad algorithm")
       ELSE IF ~opt.check /\ (opt.status \/ opt.quiet \/ opt.strict)
       THEN Die("silent, warn, strict and/or quiet can only be used with check")
       ELSE /\ pc' = IF opt.check THEN "checkFiles" ELSE "hashFiles"
            /\ UNCHANGED <<exit, stderr>>

Main ==
    /\ pc = "main"
    /\ IF prog = "sha3sum.go" THEN MainA ELSE MainB
    /\ UNCHANGED <<inputs, readState, loopState, opened, absorbed, stdinClosed>>

Checking == <<"c","h","e","c","k","i","n","g"," ">>
CheckingFiles == <<"c","h","e","c","k","i","n","g"," ","f","i","l","e","s">>

\* fmt.Println of a []string: the elements between brackets, one space apart
RECURSIVE Join(_)
Join(ss) == IF ss = <<>> THEN <<>>
            ELSE IF Len(ss) = 1 THEN ss[1]
            ELSE ss[1] \o <<" ">> \o Join(Tail(ss))
Slice(ss) == <<"[">> \o Join(ss) \o <<"]">>

\* checkFiles up to the os.Open of readHashes:
\* src/sha3sum.go:259 and 198-201, src/unnamed/part_000:175-178
ReadHashesOpen ==
    /\ pc = "checkFiles"
    /\ stdout' = IF prog = "sha3sum.go"
                 THEN Append(stdout, Checking \o <<" ">> \o Sums) ELSE stdout
    /\ IF manifestExists
       THEN /\ opened' = Append(opened, Sums)
            /\ pc' = "readHashes"
            /\ UNCHANGED <<exit, stderr>>
       ELSE /\ Die("open sums: no such file or directory")
            /\ UNCHANGED opened
    /\ UNCHANGED <<inputs, readState, loopState, absorbed, stdinClosed>>

\* readHashes without the test of strict: a bad line never ends the run
ReadHashesLineLenient ==
    /\ pc = "readHashes"
    /\ rd < Len(manifest)
    /\ LET e == IF prog = "sha3sum.go" THEN parseHash(manifest[rd + 1], opt.tag)
                ELSE parseHash0(manifest[rd + 1], opt.tag)
       IN  /\ hashes' = Append(hashes, e.hash)
           /\ filenames' = Append(filenames, e.fname)
           /\ algorithms' = Append(algorithms, e.algorithm)
           /\ portables' = Append(portables, e.portable)
           /\ binaries' = Append(binaries, e.binary)
           /\ rd' = rd + 1
           /\ UNCHANGED <<pc, exit, stderr>>
    /\ UNCHANGED <<inputs, loopState, stdout, opened, absorbed, stdinClosed>>

\* readHashes recording the text of a bad line as its filename
ReadHashesLineKeepText ==
    /\ pc = "readHashes"
    /\ rd < Len(manifest)
    /\ LET e == IF prog = "sha3sum.go" THEN parseHash(manifest[rd + 1], opt.tag)
                ELSE parseHash0(manifest[rd + 1], opt.tag)
       IN  IF e.err # "" /\ opt.strict
           THEN /\ Die(e.err)
                /\ UNCHANGED readState
           ELSE /\ hashes' = Append(hashes, e.hash)
                /\ filenames' = Append(filenames, IF e.err # "" THEN manifest[rd + 1]
                                                  ELSE e.fname)
                /\ algorithms' = Append(algorithms, e.algorithm)
                /\ portables' = Append(portables, e.portable)
                /\ binaries' = Append(binaries, e.binary)
                /\ rd' = rd + 1
                /\ UNCHANGED <<pc, exit, stderr>>
    /\ UNCHANGED <<inputs, loopState, stdout, opened, absorbed, stdinClosed>>

\* one line of the loop of readHashes (src/sha3sum.go:206-228,
\* src/unnamed/part_000:183-203).  manifest[k] is the line as ReadLine yields
\* it, the parts of a long line joined.
ReadHashesLine ==
    /\ pc = "readHashes"
    /\ rd < Len(manifest)
    /\ LET e == IF prog = "sha3sum.go" THEN parseHash(manifest[rd + 1], opt.tag)
                ELSE parseHash0(manifest[rd + 1], opt.tag)
       IN  IF e.err # "" /\ opt.strict
           THEN /\ Die(e.err)
                /\ UNCHANGED readState
           ELSE /\ hashes' = Append(hashes, e.hash)
                /\ filenames' = Append(filenames, e.fname)
                /\ algorithms' = Append(algorithms, e.algorithm)
                /\ portables' = Append(portables, e.portable)
                /\ binaries' = Append(binaries, e.binary)
                /\ rd' = rd + 1
                /\ UNCHANGED <<pc, exit, stderr>>
    /\ UNCHANGED <<inputs, loopState, stdout, opened, absorbed, stdinClosed>>

\* io.EOF in readHashes: it returns and checkFiles goes on
\* (src/sha3sum.go:208-213 and 263)
ReadHashesEOF ==
    /\ pc = "readHashes"
    /\ rd = Len(manifest)
    /\ pc' = "verify"
    /\ stdout' = IF prog = "sha3sum.go"
                 THEN Append(stdout, CheckingFiles \o <<" ">> \o Slice(filenames))
                 ELSE stdout
    /\ UNCHANGED <<inputs, readState, loopState, stderr, exit, opened, absorbed, stdinClosed>>

OKSuffix == <<":", " ", "O", "K">>
FAILEDSuffix == <<":", " ", "F", "A", "I", "L", "E", "D">>

\* the hashFile call of one iteration, in either program
HashCall(filename, algorithm, portable, binary) ==
    IF prog = "sha3sum.go" THEN hashFile(filename, algorithm, portable, binary)
    ELSE hashFile0(filename, algorithm)

\* what a hashFile call leaves behind: the file it opened, the bytes it fed,
\* and the standard input closed when it was the file (defer f.Close())
LogCall(filename, algorithm, r) ==
    /\ stdinClosed' = (stdinClosed \/ filename = Dash)
    /\ opened' = IF r.st # "die" /\ filename # Dash
                 THEN Append(opened, filename) ELSE opened
    /\ absorbed' = IF r.st # "die"
                   THEN Append(absorbed, [file |-> filename, algorithm |-> algorithm,
                                          text |-> r.text, fed |-> r.fed, st |-> r.st])
                   ELSE absorbed

\* hashFile ended the process: dieerr (exit status 1) or a nil dereference
\* (the Go runtime ends a panicking process with status 2)
Crash(filename, r) ==
    /\ stderr' = Append(stderr,
                        CASE r.st = "die" -> "open: no such file or directory"
                          [] r.st = "readerr" -> "read /dev/stdin: file already closed"
                          [] OTHER -> "panic: nil pointer dereference")
    /\ exit' = IF r.st \in {"die", "readerr"} THEN 1 ELSE 2
    /\ pc' = "exited"

\* the outcome of an entry when only the lengths of the digests are compared
OutcomeALengthOnly(actualHashHex, expectedHex) ==
    LET actual == DecodeString(actualHashHex)
        expected == DecodeString(expectedHex)
    IN  IF actual.err \/ expected.err
        THEN IF opt.strict THEN "RETURN" ELSE "SKIP"
        ELSE IF Len(actual.bytes) = Len(expected.bytes) THEN "OK" ELSE "FAILED"

\* the outcome of one entry after a successful hashFile:
\* src/sha3sum.go:274-300
OutcomeA(actualHashHex, expectedHex) ==
    LET actual == DecodeString(actualHashHex)
        expected == DecodeString(expectedHex)
    IN  IF actual.err \/ expected.err
        THEN IF opt.strict THEN "RETURN" ELSE "SKIP"
        ELSE IF SecureEqual(actual.bytes, expected.bytes) THEN "OK" ELSE "FAILED"

\* src/unnamed/part_000:237-256
OutcomeB(actualHashHex, expectedHex) ==
    LET actual == DecodeString(actualHashHex)
        expected == DecodeString(expectedHex)
    IN  IF (actual.err \/ expected.err) /\ opt.strict THEN "RETURN"
        ELSE IF ~actual.err /\ ~expected.err /\ SecureEqual(actual.bytes, expected.bytes)
        THEN "OK" ELSE "FAILED"

\* one iteration of the loop of checkFiles
\* (src/sha3sum.go:264-301, src/unnamed/part_000:231-257)
CheckFilesEntry ==
    /\ pc = "verify"
    /\ i <= Len(filenames)
    /\ LET filename == filenames[i]
           r == HashCall(filename, algorithms[i], opt.portable \/ portables[i],
                         opt.binary \/ binaries[i])
           o == IF prog = "sha3sum.go" THEN OutcomeA(r.result, hashes[i])
                ELSE OutcomeB(r.result, hashes[i])
       IN  /\ LogCall(filename, algorithms[i], r)
           /\ IF r.st # "ok"
              THEN /\ Crash(filename, r)
                   /\ UNCHANGED <<loopState, stdout>>
              ELSE IF o = "RETURN"
              THEN /\ exit' = 1 /\ pc' = "exited"
                   /\ UNCHANGED <<loopState, stdout, stderr>>
              ELSE /\ i' = i + 1
                   /\ verdicts' = Append(verdicts, o)
                   /\ good' = IF o = "OK" THEN good + 1 ELSE good
                   /\ bad' = IF o = "FAILED" THEN bad + 1 ELSE bad
                   /\ stdout' = IF opt.status \/ o = "SKIP" THEN stdout
                                ELSE IF o = "OK" THEN Append(stdout, filename \o OKSuffix)
                                ELSE Append(stdout, filename \o FAILEDSuffix)
                   /\ UNCHANGED <<pc, exit, stderr>>
    /\ UNCHANGED <<inputs, readState>>

\* the end of checkFiles and of main
\* (src/sha3sum.go:302-305 and 374-376, src/unnamed/part_000:258-261, 311-313)
CheckFilesReturn ==
    /\ pc = "verify"
    /\ i > Len(filenames)
    /\ stderr' = IF ~opt.status /\ bad > 0
                 THEN Append(stderr, <<"WARNING", bad, good + bad>>) ELSE stderr
    /\ exit' = 0
    /\ pc' = "exited"
    /\ UNCHANGED <<inputs, readState, loopState, stdout, opened, absorbed, stdinClosed>>

\* the line hashFiles prints for one file
\* (src/sha3sum.go:243-253, src/unnamed/part_000:218-222)
OutputLine(filename, hash) ==
    IF opt.tag THEN FormatTag(opt.algorithm, filename, hash)
    ELSE IF prog = "sha3sum.go" THEN FormatPlain(hash, filename, opt.portable, opt.binary)
    ELSE FormatPlain0(hash, filename)

\* one iteration of the loop of hashFiles
\* (src/sha3sum.go:237-254, src/unnamed/part_000:212-223)
HashFilesEntry ==
    /\ pc = "hashFiles"
    /\ i <= Len(Files)
    /\ LET filename == Files[i]
           r == HashCall(filename, opt.algorithm, opt.portable, opt.binary)
       IN  /\ LogCall(filename, opt.algorithm, r)
           /\ IF r.st # "ok"
              THEN /\ Crash(filename, r)
                   /\ UNCHANGED <<i, stdout>>
              ELSE /\ i' = i + 1
                   /\ stdout' = Append(stdout, OutputLine(filename, r.result))
                   /\ UNCHANGED <<pc, exit, stderr>>
    /\ UNCHANGED <<inputs, readState, good, bad, verdicts>>

\* the end of hashFiles and of main: err is nil
HashFilesReturn ==
    /\ pc = "hashFiles"
    /\ i > Len(Files)
    /\ exit' = 0
    /\ pc' = "exited"
    /\ UNCHANGED <<inputs, readState, loopState, stdout, stderr, opened, absorbed, stdinClosed>>

NextGen ==
    \/ Main
    \/ HashFilesEntry
    \/ HashFilesReturn

NextCheck ==
    \/ Main
    \/ ReadHashesOpen
    \/ ReadHashesLine
    \/ ReadHashesEOF
    \/ CheckFilesEntry
    \/ CheckFilesReturn

\* runs without --check
SpecGen == InitGen /\ [][NextGen]_vars

\* runs with --check
SpecCheck == InitCheck /\ [][NextCheck]_vars

(***************************************************************************)
(* Helpers of the properties.                                              *)
(***************************************************************************)
HasSuffix(s, x) == Len(s) >= Len(x) /\ SubSeq(s, Len(s) - Len(x) + 1, Len(s)) = x

\* the parse of a manifest line by the running program
Parsed(line) == IF prog = "sha3sum.go" THEN parseHash(line, opt.tag)
                ELSE parseHash0(line, opt.tag)

\* readHashes has opened the manifest
ManifestOpened == opt.check /\ opened # <<>>

\* readHashes has returned: every line was consumed and the end was seen
ReadDone == ManifestOpened /\ rd = Len(manifest) /\ pc \in {"verify", "exited"}

\* readHashes ended the process at line rd + 1
ReadDied == ManifestOpened /\ rd < Len(manifest) /\ pc = "exited"

\* every entry has been verified and checkFiles has returned
Completed == ReadDone /\ pc = "exited" /\ i > Len(filenames)

\* the digest hashFile computes for entry k, <<>> when it ends the process
ActualOf(k) == HashCall(filenames[k], algorithms[k], opt.portable \/ portables[k],
                        opt.binary \/ binaries[k]).result

\* the positions where two strings of one length differ
DiffChars(a, b) == {p \in 1..Len(a) : a[p] # b[p]}
DiffValues(a, b) == {p \in 1..Len(a) : fromHexChar(a[p]) # fromHexChar(b[p])}

\* every CR LF pair replaced by LF, every other byte kept
RECURSIVE CRLFtoLF(_)
CRLFtoLF(data) ==
    IF data = <<>> THEN <<>>
    ELSE IF Len(data) >= 2 /\ data[1] = CR /\ data[2] = LF
    THEN <<LF>> \o CRLFtoLF(Drop(data, 2))
    ELSE <<data[1]>> \o CRLFtoLF(Tail(data))

\* a line of standard output that reports an entry
IsOK(line) == HasSuffix(line, OKSuffix)
IsReport(line) == HasSuffix(line, OKSuffix) \/ HasSuffix(line, FAILEDSuffix)

\* the entry readHashes recorded for line k
Entry(k) == [hash |-> hashes[k], fname |-> filenames[k], algorithm |-> algorithms[k],
             portable |-> portables[k], binary |-> binaries[k]]
ZeroEntry == [hash |-> <<>>, fname |-> <<>>, algorithm |-> 0,
              portable |-> FALSE, binary |-> FALSE]

\* a strict run ended before the last entry was verified
StrictAbort == opt.strict /\ pc = "exited" /\ ~Completed

(***************************************************************************)
(* Properties.                                                             *)
(***************************************************************************)

\* C1: in verify mode the exit status is non-zero whenever an entry was
\* classified FAILED (bad > 0) or a strict abort occurred, and zero when every
\* entry was verified and none FAILED.  (A run that ends early without the
\* strict flag is the subject of C2.)
C1_Verdict ==
    (pc = "exited" /\ ManifestOpened) =>
        /\ (bad > 0 \/ StrictAbort) => exit # 0
        /\ (Completed /\ bad = 0) => exit = 0

\* C2: when the loop of checkFiles reaches an entry that names a file which
\* cannot be opened, then without strict the entry is classified FAILED and
\* the run goes on to the end of the manifest; with strict the run ends there
\* with a non-zero status and neither that entry nor a later one is verified.
C2_MissingFile ==
    ReadDone =>
        \A k \in 1..Len(filenames) :
            (filenames[k] # <<>> /\ ~CanOpen(filenames[k])) =>
                /\ (~opt.strict /\ pc = "exited" /\ i >= k) =>
                      (Completed /\ verdicts[k] = "FAILED")
                /\ opt.strict =>
                      /\ Len(verdicts) < k
                      /\ (pc = "exited" /\ i = k) => exit # 0

\* C3: with strict, a manifest one of whose lines does not parse ends the run
\* with a non-zero status before any entry is verified: no file is hashed and
\* no OK/FAILED line is printed, whatever precedes the bad line.
C3_StrictParseAbort ==
    (ManifestOpened /\ opt.strict
       /\ \E k \in 1..Len(manifest) : Parsed(manifest[k]).err # "") =>
        /\ pc # "verify"
        /\ absorbed = <<>>
        /\ opened = <<Sums>>
        /\ verdicts = <<>>
        /\ \A k \in 1..Len(stdout) : ~IsReport(stdout[k])
        /\ pc = "exited" => exit = 1

\* C3 witness: a strict run ended by a bad line that follows a good one
C3_Witness ==
    /\ ReadDied /\ opt.strict /\ exit = 1
    /\ rd >= 1
    /\ Parsed(manifest[1]).err = ""
    /\ Parsed(manifest[rd + 1]).err # ""

\* C4 as stated: an entry whose recorded digest differs from the file's actual
\* digest in exactly one character, a hex digit, is classified FAILED, and the
\* run does not end at it.
C4_TamperAnyChar ==
    ReadDone =>
        \A k \in 1..Len(filenames) :
            (/\ CanOpen(filenames[k]) /\ validAlgorithm(algorithms[k])
             /\ Len(hashes[k]) = Len(ActualOf(k))
             /\ Cardinality(DiffChars(hashes[k], ActualOf(k))) = 1) =>
                /\ k <= Len(verdicts) => verdicts[k] = "FAILED"
                /\ ~(pc = "exited" /\ i = k)

\* C4 amended: an entry whose recorded digest differs from the file's actual
\* digest in exactly one character, by a hex digit of another value (not the
\* same digit in the other letter case), is classified FAILED, and the run
\* does not end at it.
C4_TamperValue ==
    ReadDone =>
        \A k \in 1..Len(filenames) :
            (/\ CanOpen(filenames[k]) /\ validAlgorithm(algorithms[k])
             /\ Len(hashes[k]) = Len(ActualOf(k))
             /\ Cardinality(DiffChars(hashes[k], ActualOf(k))) = 1
             /\ DiffValues(hashes[k], ActualOf(k)) = DiffChars(hashes[k], ActualOf(k))) =>
                /\ k <= Len(verdicts) => verdicts[k] = "FAILED"
                /\ ~(pc = "exited" /\ i = k)

\* C4 witness: a tampered entry has been verified, after an untampered one
C4_Witness ==
    /\ ReadDone /\ Len(verdicts) = 2
    /\ verdicts[1] = "OK" /\ verdicts[2] = "FAILED"
    /\ Len(hashes[2]) = Len(ActualOf(2))
    /\ Cardinality(DiffValues(hashes[2], ActualOf(2))) = 1

\* C5: every line hashFiles prints parses, in the grammar it was written in,
\* to the digest, the filename, the width and the mode flags it was written
\* from.
C5_RoundTrip ==
    (~opt.check /\ ~opt.version /\ validAlgorithm(opt.algorithm)
       /\ ~(opt.binary /\ opt.portable)) =>
        \A k \in 1..Len(stdout) :
            /\ Parsed(stdout[k]).err = ""
            /\ Parsed(stdout[k]).fname = Files[k]
            /\ Parsed(stdout[k]).hash = Sprintf02x(KeccakSum(opt.algorithm, absorbed[k].fed))
            /\ Parsed(stdout[k]).algorithm = opt.algorithm
            /\ Parsed(stdout[k]).portable = opt.portable
            /\ Parsed(stdout[k]).binary = opt.binary

\* a plain line made of w/4 hex digits, the separator and a non-empty filename
PlainWidth(line) ==
    LET n == Run(line, HexChars)
        sp == Run(Drop(line, n), {" "})
    IN  IF n * 4 \in {224, 256, 384, 512} /\ sp >= 2 /\ Len(line) > n + sp
        THEN n * 4 ELSE 0

\* C6: a plain-grammar line of w/4 hex digits, the separator and a non-empty
\* filename parses: readHashes does not end the run at it and records the
\* digest, a non-empty filename and the width w.
C6_PlainWidth ==
    (ManifestOpened /\ ~opt.tag) =>
        /\ \A k \in 1..rd :
              PlainWidth(manifest[k]) # 0 =>
                 /\ algorithms[k] = PlainWidth(manifest[k])
                 /\ hashes[k] = Take(manifest[k], PlainWidth(manifest[k]) \div 4)
                 /\ filenames[k] # <<>>
        /\ ReadDied => PlainWidth(manifest[rd + 1]) = 0

\* C7: a width outside {224,256,384,512} given with -a ends the run with a
\* failure before any file or manifest is opened or read and before any
\* digest computation is started.
C7_BadAlgorithm ==
    (~validAlgorithm(opt.algorithm) /\ ~opt.version) =>
        /\ opened = <<>>
        /\ absorbed = <<>>
        /\ pc = "exited" => exit = 1

\* C8: with --status or --quiet no "<filename>: OK" line is printed.
C8_Quiet ==
    (opt.check /\ (opt.status \/ opt.quiet)) =>
        \A k \in 1..Len(stdout) : ~IsOK(stdout[k])

\* C9 as stated: without strict, the entry recorded for a line that fails to
\* parse has an empty digest, an empty filename, width 0 and no mode flag.
C9_Placeholder ==
    (ManifestOpened /\ ~opt.strict) =>
        \A k \in 1..rd : Parsed(manifest[k]).err # "" => Entry(k) = ZeroEntry

\* the line does not have the shape of the grammar in use
NoMatch(line) ==
    IF opt.tag THEN tagRegexp(line) = <<>>
    ELSE IF prog = "sha3sum.go" THEN normalRegexp(line) = <<>>
    ELSE normalRegexp0(line) = <<>>

\* C9 amended: without strict, the entry recorded for a line that does not
\* match the pattern of the grammar has an empty digest, an empty filename,
\* width 0 and no mode flag.
C9_PlaceholderNoMatch ==
    (ManifestOpened /\ ~opt.strict) =>
        \A k \in 1..rd : NoMatch(manifest[k]) => Entry(k) = ZeroEntry

\* C9 witness: a line without the shape of the grammar was recorded after a
\* well-formed one
C9_Witness ==
    /\ ManifestOpened /\ ~opt.strict /\ rd = 2
    /\ Parsed(manifest[1]).err = "" /\ Entry(1) # ZeroEntry
    /\ NoMatch(manifest[2]) /\ Entry(2) = ZeroEntry

\* C10: on the text path the bytes fed to the accumulator are the content of
\* the file with every CR LF pair replaced by LF.
C10_TextFeed ==
    \A k \in 1..Len(absorbed) :
        (absorbed[k].text /\ absorbed[k].st = "ok") =>
            absorbed[k].fed = CRLFtoLF(Content(absorbed[k].file))

TypeOK ==
    /\ pc \in {"main", "checkFiles", "readHashes", "verify", "hashFiles", "exited"}
    /\ exit \in {-1, 0, 1, 2}
    /\ (pc = "exited") = (exit # -1)
    /\ Len(hashes) = rd /\ Len(filenames) = rd /\ Len(algorithms) = rd
    /\ good + bad <= Len(verdicts)

====
